---- MODULE Spec2Model ----
(***************************************************************************)
(* A model of omm's CPU-feature-aware memcpy:                              *)
(*   - the copy kernels of include/omm/detail/memcpy/memcpy_avx2.h and     *)
(*     memcpy_avx512.h, at byte level;                                      *)
(*   - the dispatchers of include/omm/memcpy.h and of the older            *)
(*     include/omm/memcpy/memcpy_impl.hpp;                                  *)
(*   - the cache-size globals of include/omm/detail/cpu_features.h(pp).    *)
(* Sizes and addresses are machine words of SIZE_WIDTH bits.               *)
(***************************************************************************)
EXTENDS Integers, Sequences, FiniteSets, TLC

VARIABLES
    build,             \* how the translation unit was compiled
    cpu,               \* what the running CPU supports
    call,              \* the copy call in progress (arguments, kernel, cursors)
    mem,               \* bytes written since the caller prepared its buffers
    nt,                \* non-temporal stores of the call in progress
    crashed,           \* the process died of an illegal instruction
    firstAuto,         \* the kernel the first Auto call was routed to, or "none"
    best_memcpy_impl,  \* memcpy_impl.hpp: the memoized kernel reference
    initializer,       \* memcpy_impl.hpp: position of `Initializer initializer`
    os,                \* the platform branch of detect_cache_sizes
    G_CACHE_SIZES,     \* the four cache-topology globals
    g_cache_size_initializer,  \* the global CacheSizeInitializer object
    exec,              \* executions of initialize_cache_sizes, by executor
    initRuns,          \* entries into the body of initialize_cache_sizes
    initDone,          \* completed executions of initialize_cache_sizes
    info,              \* the CPUInfo each thread last got from get_cpu_info
    cout,              \* the lines the library has written to std::cout
    getter,            \* where each thread is inside get_cpu_info
    statics            \* stores made so far to the function-local statics

cfgVars == <<build, cpu, os>>
cacheVars == <<G_CACHE_SIZES, g_cache_size_initializer, exec, initRuns, initDone>>
diagVars == <<getter, statics>>
vars == <<cfgVars, call, mem, nt, crashed, firstAuto, best_memcpy_impl,
          initializer, cacheVars, info, cout, diagVars>>

----------------------------------------------------------------------------
(* Bounds of the model *)

\* width of std::size_t / std::uintptr_t in the model (64 in the build)
SIZE_WIDTH == 16
\* the standalone G_L3_CACHE_SIZE (32 MiB in the headers), scaled down; like
\* the real value it is no smaller than one vector width
L3_STANDALONE == 64
\* start of the caller's source and destination buffers
SrcBase == 1024
DestBase == 3136
\* a size that reaches the block loop of both kernels
BigSize == 600
\* how many times initialize_cache_sizes is entered at most
MaxInitRuns == 2
\* the overlapping copy of the tests (1024 bytes, 100 bytes apart), scaled
\* with the threshold so that it stays on the small-size path as it does there
OverlapSize == 48
OverlapShift == 10

(* Program constants *)

ALIGNMENT_AVX2 == 32
ALIGNMENT_AVX512 == 64
UNROLL_FACTOR == 8
\* memcpy_impl.hpp: `if (size <= 32)` and `BLOCK_SIZE = 256`
IMPL_HPP_SMALL == 32
IMPL_HPP_BLOCK == 256
\* the cache line size the standalone kernels are compiled with
STANDALONE_CACHE_LINE == 64

----------------------------------------------------------------------------
(* Machine words *)

RECURSIVE Pow2(_)
Pow2(k) == IF k = 0 THEN 1 ELSE 2 * Pow2(k - 1)

WORD == Pow2(SIZE_WIDTH)

WAdd(a, b) == (a + b) % WORD
WSub(a, b) == (a - b + WORD) % WORD
WNot(a) == WORD - 1 - a

RECURSIVE BitAnd(_, _)
BitAnd(x, y) ==
    IF x = 0 \/ y = 0 THEN 0
    ELSE (x % 2) * (y % 2) + 2 * BitAnd(x \div 2, y \div 2)

----------------------------------------------------------------------------
(* Memory: the caller fills its buffers before every call; mem holds the   *)
(* bytes written since, by address.                                        *)

InitByte(a) == a % 251

NoWrites == [a \in {} |-> 0]

ReadByte(m, a) == IF a \in DOMAIN m THEN m[a] ELSE InitByte(a)

\* __builtin_memcpy / std::memcpy of n bytes, ranges not overlapping
CopyBytes(m, d, s, n) ==
    LET range == {WAdd(d, k) : k \in 0..(n - 1)}
    IN  [a \in (DOMAIN m) \cup range |->
            IF a \in range THEN ReadByte(m, WAdd(s, WSub(a, d))) ELSE m[a]]

\* the two ranges of a copy share bytes
Overlap(d, s, n) ==
    n > 0 /\ d # s /\ (WSub(d, s) < n \/ WSub(s, d) < n)

\* std::memcpy / __builtin_memcpy on ranges that overlap is undefined: what
\* the bytes become depends on how the library or the inlined expansion walks
\* the ranges. The model takes the three plain ones: all loads before any
\* store (what memmove does), byte by byte upwards, byte by byte downwards.
CopyOrders(d, s, n) ==
    IF Overlap(d, s, n) THEN {"buffered", "ascending", "descending"}
    ELSE {"buffered"}

BulkCopy(o, m, d, s, n) ==
    LET range == {WAdd(d, i) : i \in 0..(n - 1)}
        up == WSub(d, s)      \* dest above src by this much
        down == WSub(s, d)    \* dest below src by this much
        from(i) ==
            IF o = "ascending" /\ up < n THEN i % up
            ELSE IF o = "descending" /\ down < n
                 THEN i + down * ((n - 1 - i) \div down)
            ELSE i
    IN  [a \in (DOMAIN m) \cup range |->
            IF a \in range THEN ReadByte(m, WAdd(s, from(WSub(a, d))))
            ELSE m[a]]

----------------------------------------------------------------------------
(* Builds and CPUs *)

MemcpyImpl == {"Auto", "AVX512", "AVX2", "Standard"}

\* omm/memcpy.h is compiled with or without __AVX2__ / __AVX512F__;
\* memcpy_impl.hpp uses the AVX2 intrinsics unconditionally
\* (a compiler that defines __AVX512F__ defines __AVX2__ too)
Builds ==
    {b \in [variant : {"memcpy.h"}, compiler : {"gcc", "clang", "msvc"},
            AVX2 : BOOLEAN, AVX512F : BOOLEAN] : b.AVX512F => b.AVX2}
    \cup [variant : {"memcpy_impl.hpp"}, compiler : {"gcc"},
          AVX2 : {TRUE}, AVX512F : {FALSE}]

\* omm/memcpy/memcpy.hpp compiles with __AVX2__ alone (with __AVX512F__ it
\* names memcpy_avx2_impl, which is then not defined) or with neither
BuildsHpp ==
    [variant : {"memcpy.hpp"}, compiler : {"gcc"},
     AVX2 : BOOLEAN, AVX512F : {FALSE}]

\* (a CPU with AVX-512F has AVX2)
CPUs == {c \in [avx2 : BOOLEAN, avx512f : BOOLEAN] : c.avx512f => c.avx2}

\* cpu_features.h: the #if ladder; memcpy_impl.hpp: CPUID leaf 7, EBX bit 16
\* (cpu_features.hpp, which memcpy.hpp includes, only declares the function)
cpu_supports_avx512f(b, c) ==
    IF b.variant # "memcpy.h" THEN c.avx512f
    ELSE IF b.AVX512F /\ b.compiler = "gcc" THEN c.avx512f
    ELSE IF b.AVX512F /\ b.compiler \in {"clang", "msvc"} THEN TRUE
    ELSE FALSE

\* cpu_features.h: the #if ladder; memcpy_impl.hpp: CPUID leaf 7, EBX bit 5
cpu_supports_avx2(b, c) ==
    IF b.variant # "memcpy.h" THEN c.avx2
    ELSE IF b.AVX2 /\ b.compiler = "gcc" THEN c.avx2
    ELSE IF b.AVX2 /\ b.compiler \in {"clang", "msvc"} THEN TRUE
    ELSE FALSE

----------------------------------------------------------------------------
(* Dispatchers *)

\* a selection that looks at AVX2 before AVX-512
get_best_memcpy_impl_avx2_first(b, c) ==
    IF b.AVX2 /\ cpu_supports_avx2(b, c) THEN "avx2"
    ELSE IF b.AVX512F /\ cpu_supports_avx512f(b, c) THEN "avx512"
    ELSE "standard"

\* memcpy.h, memcpy.hpp: the kernel get_best_memcpy_impl returns
get_best_memcpy_impl(b, c) ==
    IF b.AVX512F /\ cpu_supports_avx512f(b, c) THEN "avx512"
    ELSE IF b.AVX2 /\ cpu_supports_avx2(b, c) THEN "avx2"
    ELSE "standard"

\* memcpy.h: how many cpu_supports_* calls get_best_memcpy_impl makes
get_best_queries(b, c) ==
    (IF b.AVX512F THEN 1 ELSE 0)
    + (IF ~(b.AVX512F /\ cpu_supports_avx512f(b, c)) /\ b.AVX2 THEN 1 ELSE 0)

\* memcpy_impl.hpp: the value initialize_best_memcpy_impl stores
initialize_best_memcpy_impl(b, c) ==
    IF cpu_supports_avx512f(b, c) THEN "avx512"
    ELSE IF cpu_supports_avx2(b, c) THEN "avx2"
    ELSE "standard"

\* the switch of omm::memcpy: the kernel a call with choice impl runs
Route(b, c, best, impl) ==
    IF b.variant # "memcpy_impl.hpp" THEN
        CASE impl = "AVX512" -> IF b.AVX512F THEN "avx512" ELSE "standard"
          [] impl = "AVX2" -> IF b.AVX2 THEN "avx2" ELSE "standard"
          [] impl = "Standard" -> "standard"
          [] OTHER -> get_best_memcpy_impl(b, c)
    ELSE
        CASE impl = "AVX512" -> "avx512"
          [] impl = "AVX2" -> "avx2"
          [] impl = "Standard" -> "standard"
          [] OTHER -> best

\* the cpu_supports_* calls that routing a call makes
RouteQueries(b, c, impl) ==
    IF b.variant # "memcpy_impl.hpp" /\ impl = "Auto" THEN get_best_queries(b, c)
    ELSE 0

----------------------------------------------------------------------------
(* Kernels *)

ALIGNMENT(k) == IF k = "avx512" THEN ALIGNMENT_AVX512 ELSE ALIGNMENT_AVX2

\* memcpy.h kernels: ALIGNMENT * UNROLL_FACTOR; memcpy_impl.hpp, memcpy.hpp: 256
BLOCK_SIZE(b, k) ==
    IF b.variant = "memcpy.h" THEN ALIGNMENT(k) * UNROLL_FACTOR
    ELSE IMPL_HPP_BLOCK

\* a small-size test that sends every copy to the vector path
IsSmall_never(b, k, size, l3) == FALSE

\* a small-size test that lets nothing but the empty copy through
IsSmall_only_zero(b, k, size, l3) == size = 0

\* the test that sends a call down the small-size path:
\*   memcpy_avx2.h    size <= G_L3_CACHE_SIZE
\*   memcpy_avx512.h  size <  G_L3_CACHE_SIZE
\*   memcpy_impl.hpp  size <= 32
\*   memcpy.hpp       size <= G_L3_CACHE_SIZE, the global read at run time (l3)
IsSmall(b, k, size, l3) ==
    IF b.variant = "memcpy.h" THEN
        IF k = "avx512" THEN size < L3_STANDALONE ELSE size <= L3_STANDALONE
    ELSE IF b.variant = "memcpy.hpp" THEN size <= l3
    ELSE size <= IMPL_HPP_SMALL

\* the offset of the destination inside its vector, taken for the distance
\* to the next boundary
InitialBytes_offset(A, dest) == BitAnd(dest, A - 1)

\* the distance to the next boundary without the outer mask: a whole vector
\* for a destination that is aligned already
InitialBytes_unmasked(A, dest) == WSub(A, BitAnd(dest, A - 1))

\* (ALIGNMENT - (dest & ALIGNMENT - 1)) & ALIGNMENT - 1
InitialBytes(A, dest) ==
    BitAnd(WSub(A, BitAnd(dest, A - 1)), A - 1)

\* the size rounded up to whole blocks
VectorSize_round_up(size, B) == BitAnd(WAdd(size, B - 1), WNot(B - 1))

\* a mask that clears one bit only, so that the block loop overruns
VectorSize_one_bit(size, B) == BitAnd(size, WNot(B))

\* size & ~(BLOCK_SIZE - 1)
VectorSize(size, B) == BitAnd(size, WNot(B - 1))

\* the kernel can run on the CPU
Supported(c, k) ==
    CASE k = "avx512" -> c.avx512f
      [] k = "avx2" -> c.avx2
      [] OTHER -> TRUE

\* one unrolled block: p times an unaligned load of A bytes from sv, streamed to dv
\* a block loop that never advances its source vector
StreamBlock_same_source(m, dv, sv, A, p) ==
    LET range == {WAdd(dv, k) : k \in 0..(A * p - 1)}
    IN  [a \in (DOMAIN m) \cup range |->
            IF a \in range THEN ReadByte(m, WAdd(sv, WSub(a, dv) % A)) ELSE m[a]]

\* a block of which only the first vector is loaded and stored
StreamBlock_first_vector(m, dv, sv, A, p) == CopyBytes(m, dv, sv, A)

RECURSIVE StreamBlock(_, _, _, _, _)
StreamBlock(m, dv, sv, A, p) ==
    IF p = 0 THEN m
    ELSE StreamBlock(CopyBytes(m, dv, sv, A), WAdd(dv, A), WAdd(sv, A), A, p - 1)

\* the destination addresses of the p stores of a block
StoreAddrs(dv, A, p) == {WAdd(dv, A * j) : j \in 0..(p - 1)}

Idle ==
    [pc |-> "idle", impl |-> "Auto", dest |-> 0, src |-> 0, n |-> 0,
     kernel |-> "standard", queries |-> 0, first |-> FALSE,
     dest_ptr |-> 0, src_ptr |-> 0, dest_vec |-> 0, src_vec |-> 0,
     size |-> 0, vector_size |-> 0, i |-> 0,
     via |-> "memcpy", l3 |-> 0, initial_bytes |-> 0, remaining |-> 0,
     tail_at |-> 0, path |-> "none", dispatched |-> FALSE,
     callee |-> "memcpy"]

NoStores == [pending |-> FALSE, addrs |-> {}]

\* a call on freshly filled buffers enters the kernel k that the entry
\* point f (called with choice impl) picked; q is the number of
\* cpu_supports_* calls made on the way, disp says that the dispatcher
\* (get_best_memcpy_impl, or the reference best_memcpy_impl) was consulted
Enter(via, f, k, q, disp, impl, dest, src, size) ==
    /\ call.pc = "idle"
    /\ ~crashed
    /\ call' = [Idle EXCEPT !.pc = "kernel", !.impl = impl,
                   !.dest = dest, !.src = src, !.n = size,
                   !.kernel = k, !.queries = q,
                   !.first = (impl = "Auto" /\ firstAuto = "none"),
                   !.dest_ptr = dest, !.src_ptr = src, !.size = size,
                   !.via = via, !.callee = f, !.dispatched = disp]
    /\ firstAuto' = IF impl = "Auto" /\ firstAuto = "none" THEN k
                    ELSE firstAuto
    /\ UNCHANGED <<cfgVars, cout, diagVars, cacheVars, info, mem, nt, crashed, best_memcpy_impl, initializer>>

\* omm::memcpy(dest, src, size, impl): the switch picks the kernel and calls
\* it; nothing is looked at before the switch but the pointers and the size
Memcpy(impl, dest, src, size) ==
    /\ impl \in MemcpyImpl
    /\ Enter("memcpy", "memcpy", Route(build, cpu, best_memcpy_impl, impl),
             RouteQueries(build, cpu, impl), impl = "Auto", impl, dest, src, size)

\* a factory that hands out the scalar wrapper for every choice but Auto
get_memcpy_function_scalar(b, impl) ==
    IF impl = "Auto" THEN "memcpy_auto" ELSE "memcpy_standard"

\* get_memcpy_function(impl): the function it returns
get_memcpy_function(b, impl) ==
    IF b.variant = "memcpy.h" THEN
        CASE impl = "AVX512" -> IF b.AVX512F THEN "memcpy_avx512" ELSE "memcpy_standard"
          [] impl = "AVX2" -> IF b.AVX2 THEN "memcpy_avx2" ELSE "memcpy_standard"
          [] impl = "Standard" -> "memcpy_standard"
          [] OTHER -> "memcpy_auto"
    ELSE
        CASE impl = "AVX512" -> "memcpy_avx512"
          [] impl = "AVX2" -> "memcpy_avx2"
          [] impl = "Standard" -> "memcpy_standard"
          [] OTHER -> IF b.variant = "memcpy_impl.hpp" THEN "memcpy_wrapper"
                      ELSE "memcpy_auto"

\* the choice a named function stands for
ChoiceOf(f) ==
    CASE f = "memcpy_avx512" -> "AVX512"
      [] f = "memcpy_avx2" -> "AVX2"
      [] f = "memcpy_standard" -> "Standard"
      [] OTHER -> "Auto"

\* the functions of namespace omm that a build defines: in memcpy.h
\* omm::memcpy_avx2 and omm::memcpy_avx512 are the kernels themselves, there
\* only when their header is compiled in
Defined(b, f) ==
    CASE f = "memcpy_wrapper" -> b.variant = "memcpy_impl.hpp"
      [] f = "memcpy_avx512" -> b.variant # "memcpy.h" \/ b.AVX512F
      [] f = "memcpy_avx2" -> b.variant # "memcpy.h" \/ b.AVX2
      [] OTHER -> TRUE

\* the kernel a named function runs:
\*   memcpy.h                     memcpy_auto calls get_best_memcpy_impl()
\*                                itself, memcpy_standard calls std::memcpy
\*   memcpy.hpp, memcpy_impl.hpp  each calls memcpy(dst, src, size, choice)
Callee(b, c, best, f) ==
    IF b.variant = "memcpy.h" THEN
        CASE f = "memcpy_avx512" -> "avx512"
          [] f = "memcpy_avx2" -> "avx2"
          [] f = "memcpy_standard" -> "standard"
          [] OTHER -> get_best_memcpy_impl(b, c)
    ELSE Route(b, c, best, ChoiceOf(f))

CalleeQueries(b, c, f) ==
    IF b.variant = "memcpy.h" THEN
        IF f = "memcpy_auto" THEN get_best_queries(b, c) ELSE 0
    ELSE RouteQueries(b, c, ChoiceOf(f))

\* get_memcpy_function(impl)(dest, src, size)
FunctionCall(impl, dest, src, size) ==
    /\ impl \in MemcpyImpl
    /\ LET f == get_memcpy_function(build, impl)
       IN  Enter("function", f, Callee(build, cpu, best_memcpy_impl, f),
                 CalleeQueries(build, cpu, f), ChoiceOf(f) = "Auto",
                 impl, dest, src, size)

\* omm::memcpy_auto / memcpy_avx512 / memcpy_avx2 / memcpy_standard /
\* memcpy_wrapper (dest, src, size)
NamedCall(f, dest, src, size) ==
    /\ Defined(build, f)
    /\ Enter("named", f, Callee(build, cpu, best_memcpy_impl, f),
             CalleeQueries(build, cpu, f), ChoiceOf(f) = "Auto",
             ChoiceOf(f), dest, src, size)

\* memcpy_standard / standard_memcpy: std::memcpy
StandardCopy ==
    /\ call.pc = "kernel" /\ call.kernel = "standard"
    /\ \E o \in CopyOrders(call.dest_ptr, call.src_ptr, call.size) :
           mem' = BulkCopy(o, mem, call.dest_ptr, call.src_ptr, call.size)
    /\ call' = [call EXCEPT !.pc = "ret"]
    /\ UNCHANGED <<cfgVars, cout, diagVars, cacheVars, info, nt, crashed, firstAuto, best_memcpy_impl, initializer>>

\* memcpy_impl.hpp: detail::memcpy_avx512, whose body is commented out
EmptyKernel ==
    /\ call.pc = "kernel" /\ call.kernel = "avx512"
    /\ build.variant = "memcpy_impl.hpp"
    /\ call' = [call EXCEPT !.pc = "ret"]
    /\ UNCHANGED <<cfgVars, cout, diagVars, cacheVars, info, mem, nt, crashed, firstAuto, best_memcpy_impl,
                   initializer>>

HasBody ==
    /\ call.kernel \in {"avx2", "avx512"}
    /\ ~(build.variant = "memcpy_impl.hpp" /\ call.kernel = "avx512")

\* the small-size copy: __builtin_memcpy in the memcpy.h kernels and in
\* memcpy.hpp, the loop `*d++ = *s++` in memcpy_impl.hpp
FastPathOrders(b, d, s, n) ==
    IF b.variant = "memcpy_impl.hpp" /\ Overlap(d, s, n) THEN {"ascending"}
    ELSE CopyOrders(d, s, n)

\* the fast path for small sizes
FastPath ==
    /\ call.pc = "kernel" /\ HasBody
    /\ IsSmall(build, call.kernel, call.size, G_CACHE_SIZES["L3_CACHE"])
    /\ \E o \in FastPathOrders(build, call.dest_ptr, call.src_ptr, call.size) :
           mem' = BulkCopy(o, mem, call.dest_ptr, call.src_ptr, call.size)
    /\ call' = [call EXCEPT !.pc = "ret", !.l3 = G_CACHE_SIZES["L3_CACHE"],
                   !.path = "fast"]
    /\ UNCHANGED <<cfgVars, cout, diagVars, cacheVars, info, nt, crashed, firstAuto, best_memcpy_impl, initializer>>

\* align the destination, set up the vector cursors and vector_size
Prologue ==
    /\ call.pc = "kernel" /\ HasBody
    /\ ~IsSmall(build, call.kernel, call.size, G_CACHE_SIZES["L3_CACHE"])
    /\ LET A == ALIGNMENT(call.kernel)
           initial_bytes == InitialBytes(A, call.dest_ptr)
           d == WAdd(call.dest_ptr, initial_bytes)
           s == WAdd(call.src_ptr, initial_bytes)
           size == WSub(call.size, initial_bytes)
       IN  /\ mem' = CopyBytes(mem, call.dest_ptr, call.src_ptr, initial_bytes)
           /\ call' = [call EXCEPT !.pc = "loop", !.path = "vector",
                          !.l3 = G_CACHE_SIZES["L3_CACHE"],
                          !.initial_bytes = initial_bytes,
                          !.dest_ptr = d, !.src_ptr = s, !.size = size,
                          !.dest_vec = d, !.src_vec = s,
                          !.vector_size =
                              VectorSize(size, BLOCK_SIZE(build, call.kernel)),
                          !.i = 0]
    /\ UNCHANGED <<cfgVars, cout, diagVars, cacheVars, info, nt, crashed, firstAuto, best_memcpy_impl, initializer>>

\* the step of the prefetch loop of a block:
\*   memcpy.hpp                       i += G_CACHE_LINE_SIZE, the global
\*   memcpy.h kernels, memcpy_impl.hpp  a constant (64)
PrefetchStep(b, line) ==
    IF b.variant = "memcpy.hpp" THEN line ELSE STANDALONE_CACHE_LINE

\* one iteration of the block loop; its vector instructions are illegal on
\* a CPU without the extension, and a streaming store to an address that is
\* not a multiple of the vector width faults; a prefetch loop whose step
\* is 0 never leaves `i < PREFETCH_DISTANCE`; a block loop whose size has
\* wrapped around runs off the buffers
Block ==
    /\ call.pc = "loop"
    /\ call.i < call.vector_size
    /\ LET A == ALIGNMENT(call.kernel)
           B == BLOCK_SIZE(build, call.kernel)
           p == B \div A
       IN  IF ~Supported(cpu, call.kernel)
           THEN /\ crashed' = TRUE
                /\ call' = [call EXCEPT !.pc = "sigill"]
                /\ UNCHANGED <<mem, nt>>
           ELSE IF PrefetchStep(build, G_CACHE_SIZES["CACHE_LINE"]) = 0
           THEN /\ call' = [call EXCEPT !.pc = "prefetch"]
                /\ UNCHANGED <<mem, nt, crashed>>
           ELSE IF call.dest_vec % A # 0 \/ call.size > call.n
           THEN /\ crashed' = TRUE
                /\ call' = [call EXCEPT !.pc = "sigsegv"]
                /\ UNCHANGED <<mem, nt>>
           ELSE /\ mem' = StreamBlock(mem, call.dest_vec, call.src_vec, A, p)
                /\ nt' = [pending |-> TRUE,
                          addrs |-> nt.addrs \cup StoreAddrs(call.dest_vec, A, p)]
                /\ call' = [call EXCEPT
                       !.dest_vec = WAdd(call.dest_vec, B),
                       !.src_vec = WAdd(call.src_vec, B),
                       !.src_ptr = WAdd(call.src_ptr, B),
                       !.dest_ptr = IF build.variant = "memcpy.h"
                                    THEN call.dest_ptr
                                    ELSE WAdd(call.dest_ptr, B),
                       !.i = WAdd(call.i, B)]
                /\ UNCHANGED crashed
    /\ UNCHANGED <<cfgVars, cout, diagVars, cacheVars, info, firstAuto, best_memcpy_impl, initializer>>

\* a tail written at dest_ptr, which the block loop of the memcpy.h kernels
\* does not advance
TailCopy_at_dest_ptr ==
    /\ call.pc = "loop"
    /\ ~(call.i < call.vector_size)
    /\ LET remaining == WSub(call.size, call.vector_size)
       IN  /\ mem' = CopyBytes(mem, call.dest_ptr, call.src_ptr, remaining)
           /\ call' = [call EXCEPT !.pc = "fence", !.remaining = remaining,
                          !.tail_at = call.dest_ptr]
    /\ UNCHANGED <<cfgVars, cout, diagVars, cacheVars, info, nt, crashed, firstAuto, best_memcpy_impl, initializer>>

\* the remaining bytes (< BLOCK_SIZE):
\*   memcpy_avx2.h    from src_ptr  to dest_vec
\*   memcpy_avx512.h  from src_vec  to dest_vec
\*   memcpy_impl.hpp  from s        to d
TailCopy ==
    /\ call.pc = "loop"
    /\ ~(call.i < call.vector_size)
    /\ LET remaining == WSub(call.size, call.vector_size)
           d == IF build.variant = "memcpy.h" THEN call.dest_vec ELSE call.dest_ptr
           s == IF build.variant = "memcpy.h" /\ call.kernel = "avx512"
                THEN call.src_vec ELSE call.src_ptr
       IN  /\ mem' = CopyBytes(mem, d, s, remaining)
           /\ call' = [call EXCEPT !.pc = "fence", !.remaining = remaining,
                          !.tail_at = d]
    /\ UNCHANGED <<cfgVars, cout, diagVars, cacheVars, info, nt, crashed, firstAuto, best_memcpy_impl, initializer>>

\* a kernel that returns without _mm_sfence()
Fence_skipped ==
    /\ call.pc = "fence"
    /\ call' = [call EXCEPT !.pc = "ret"]
    /\ UNCHANGED <<cfgVars, cout, diagVars, cacheVars, info, mem, nt, crashed, firstAuto, best_memcpy_impl, initializer>>

\* _mm_sfence(), then the kernel returns
Fence ==
    /\ call.pc = "fence"
    /\ nt' = [nt EXCEPT !.pending = FALSE]
    /\ call' = [call EXCEPT !.pc = "ret"]
    /\ UNCHANGED <<cfgVars, cout, diagVars, cacheVars, info, mem, crashed, firstAuto, best_memcpy_impl, initializer>>

\* back in the caller, which compares the buffers and refills them
\* (tests/memcpy_tests.cpp: memcmp, then std::fill)
Return ==
    /\ call.pc = "ret"
    /\ call' = Idle
    /\ mem' = NoWrites
    /\ nt' = NoStores
    /\ UNCHANGED <<cfgVars, cout, diagVars, cacheVars, info, crashed, firstAuto, best_memcpy_impl, initializer>>

\* memcpy_impl.hpp: the constructor of the global `Initializer initializer`
RunInitializer ==
    /\ initializer = "pending"
    /\ ~crashed
    /\ best_memcpy_impl' = initialize_best_memcpy_impl(build, cpu)
    /\ initializer' = "done"
    /\ UNCHANGED <<cfgVars, cout, diagVars, cacheVars, info, call, mem, nt, crashed, firstAuto>>

----------------------------------------------------------------------------
(* The cache-size globals: cpu_features.h (included by memcpy.h) and       *)
(* cpu_features.hpp (included by memcpy.hpp, so by memcpy_impl.hpp)        *)

DEFAULT_L1_CACHE_SIZE == 32 * 1024
DEFAULT_L2_CACHE_SIZE == 256 * 1024
DEFAULT_L3_CACHE_SIZE == 8 * 1024 * 1024
DEFAULT_CACHE_LINE_SIZE == 64

CACHE_SIZES == {"L1_CACHE", "L2_CACHE", "L3_CACHE", "CACHE_LINE"}

\* std::array<std::uint32_t, NUM_CACHE_SIZES> G_CACHE_SIZES = {0}
ZeroSizes == [c \in CACHE_SIZES |-> 0]

Header == IF build.variant = "memcpy.h" THEN "cpu_features.h" ELSE "cpu_features.hpp"

\* what the platform reports when it is asked: per level a size, and a line
\* size; 0 stands for a level that is not reported, or reported as 0
ProbeOutcomes ==
    [l1d : {0, 48 * 1024}, l1i : {0, 64 * 1024}, l2 : {0, 1024 * 1024},
     l3 : {0, 16 * 1024 * 1024}, line : {0, 128}]

\* no substitution at all
OrDefault_none(v, d) == v

\* the idiom `x > 0 ? x : DEFAULT` / `if (x == 0) x = DEFAULT`
OrDefault(v, d) == IF v > 0 THEN v ELSE d

NoEntry == [size |-> 0, line_size |-> 0, type |-> 0]

\* cpu_features.h, detect_cache_sizes before its defaults loop: cache_info
\* for L1d, L1i, L2, L3 as the platform branch fills it
ProbedInfo(o, p) ==
    LET line(v) == IF v = 0 THEN 0 ELSE p.line
    IN  CASE o = "windows" ->
                 \* cache_info[Level - 1], type = Level; both L1 caches are Level 1
                 << IF p.l1i # 0 THEN [size |-> p.l1i, line_size |-> p.line, type |-> 1]
                    ELSE IF p.l1d # 0 THEN [size |-> p.l1d, line_size |-> p.line, type |-> 1]
                    ELSE NoEntry,
                    IF p.l2 # 0 THEN [size |-> p.l2, line_size |-> p.line, type |-> 2]
                    ELSE NoEntry,
                    IF p.l3 # 0 THEN [size |-> p.l3, line_size |-> p.line, type |-> 3]
                    ELSE NoEntry,
                    NoEntry >>
          [] o = "macos" ->
                 \* sysctlbyname per name; type = i + 1
                 << [size |-> p.l1d, line_size |-> line(p.l1d), type |-> 1],
                    [size |-> p.l1i, line_size |-> line(p.l1i), type |-> 2],
                    [size |-> p.l2, line_size |-> line(p.l2), type |-> 3],
                    [size |-> p.l3, line_size |-> line(p.l3), type |-> 4] >>
          [] OTHER ->
                 \* the lines of lscpu; type is left 0
                 << [size |-> p.l1d, line_size |-> line(p.l1d), type |-> 0],
                    [size |-> p.l1i, line_size |-> line(p.l1i), type |-> 0],
                    [size |-> p.l2, line_size |-> line(p.l2), type |-> 0],
                    [size |-> p.l3, line_size |-> line(p.l3), type |-> 0] >>

\* detect_cache_sizes: the vector of CacheInfo it returns
detect_cache_sizes(h, o, p) ==
    IF h = "cpu_features.h" THEN
        LET raw == ProbedInfo(o, p)
        IN  [i \in 1..4 |->
                [size |-> OrDefault(raw[i].size, DEFAULT_L1_CACHE_SIZE),
                 line_size |-> OrDefault(raw[i].line_size, DEFAULT_CACHE_LINE_SIZE),
                 type |-> IF raw[i].type = 0 THEN i ELSE raw[i].type]]
    ELSE
        \* CPUID leaves 0x80000005 / 0x80000006, fallbacks, then the L3 halving
        LET l1d_size == OrDefault(p.l1d, DEFAULT_L1_CACHE_SIZE)
            l2_size == OrDefault(p.l2, DEFAULT_L2_CACHE_SIZE)
            l3_size == OrDefault(p.l3, DEFAULT_L3_CACHE_SIZE) \div 2
        IN  << [size |-> l1d_size, line_size |-> DEFAULT_CACHE_LINE_SIZE, type |-> 1],
               [size |-> p.l1i, line_size |-> DEFAULT_CACHE_LINE_SIZE, type |-> 2],
               [size |-> l2_size, line_size |-> DEFAULT_CACHE_LINE_SIZE, type |-> 3],
               [size |-> l3_size, line_size |-> DEFAULT_CACHE_LINE_SIZE, type |-> 3] >>

\* initialize_cache_sizes: one pass of `switch (cache.type)`
StoreEntry(h, G, c) ==
    IF h = "cpu_features.h" THEN
        CASE c.type = 1 -> [G EXCEPT !["L1_CACHE"] = c.size,
                                     !["CACHE_LINE"] = c.line_size]
          [] c.type = 3 -> [G EXCEPT !["L2_CACHE"] = c.size]
          [] c.type = 4 -> [G EXCEPT !["L3_CACHE"] = c.size]
          [] OTHER -> G
    ELSE
        CASE c.type = 1 -> [G EXCEPT !["L1_CACHE"] = c.size,
                                     !["CACHE_LINE"] = c.line_size]
          [] c.type = 3 ->
                 IF G["L2_CACHE"] = 0 THEN [G EXCEPT !["L2_CACHE"] = c.size]
                 ELSE IF G["L3_CACHE"] = 0 THEN [G EXCEPT !["L3_CACHE"] = c.size]
                 ELSE G
          [] OTHER -> G

\* initialize_cache_sizes: "Ensure we have values for all cache levels"
EnsureValues(G) ==
    [L1_CACHE |-> OrDefault(G["L1_CACHE"], DEFAULT_L1_CACHE_SIZE),
     L2_CACHE |-> OrDefault(G["L2_CACHE"], DEFAULT_L2_CACHE_SIZE),
     L3_CACHE |-> OrDefault(G["L3_CACHE"], DEFAULT_L3_CACHE_SIZE),
     CACHE_LINE |-> OrDefault(G["CACHE_LINE"], DEFAULT_CACHE_LINE_SIZE)]

\* the sizes after one whole run of initialize_cache_sizes from zero
RECURSIVE StoreAll(_, _, _, _)
StoreAll(h, G, info_, k) ==
    IF k > Len(info_) THEN G
    ELSE StoreAll(h, StoreEntry(h, G, info_[k]), info_, k + 1)

Initialized(h, o, p) ==
    EnsureValues(StoreAll(h, ZeroSizes, detect_cache_sizes(h, o, p), 1))

\* who may be inside initialize_cache_sizes: the constructor of the global
\* g_cache_size_initializer, and code that calls the function itself
Executors == {"static", "user"}

NoProbe == [l1d |-> 0, l1i |-> 0, l2 |-> 0, l3 |-> 0, line |-> 0]

Outside == [pc |-> "out", probe |-> NoProbe, cache_info |-> <<>>, k |-> 0]

\* initialize_cache_sizes is entered: detect_cache_sizes asks the platform
InitializeEnter(e) ==
    /\ exec[e].pc = "out"
    /\ initRuns < MaxInitRuns
    /\ \E p \in ProbeOutcomes :
           exec' = [exec EXCEPT ![e] =
                       [pc |-> "store", probe |-> p,
                        cache_info |-> detect_cache_sizes(Header, os, p),
                        k |-> 1]]
    /\ initRuns' = initRuns + 1
    /\ cout' = IF Header = "cpu_features.hpp"
               THEN Append(cout, "Detected cache sizes") ELSE cout

\* the dynamic initialization of `inline CacheSizeInitializer g_cache_size_initializer`
StaticInitBegin ==
    /\ g_cache_size_initializer = "pending"
    /\ ~crashed
    /\ InitializeEnter("static")
    /\ g_cache_size_initializer' = "constructing"
    /\ UNCHANGED <<cfgVars, diagVars, call, mem, nt, crashed, firstAuto, best_memcpy_impl,
                   initializer, G_CACHE_SIZES, initDone, info>>

\* a call of initialize_cache_sizes() from the program's own code, after
\* start-up: the function is public and has no guard
UserInitialize ==
    /\ g_cache_size_initializer = "constructed"
    /\ ~crashed
    /\ InitializeEnter("user")
    /\ UNCHANGED <<cfgVars, diagVars, call, mem, nt, crashed, firstAuto, best_memcpy_impl,
                   initializer, G_CACHE_SIZES, g_cache_size_initializer,
                   initDone, info>>

\* one iteration of `for (const auto& cache : cache_info)`
InitializeStore(e) ==
    /\ exec[e].pc = "store"
    /\ exec[e].k <= Len(exec[e].cache_info)
    /\ ~crashed
    /\ G_CACHE_SIZES' = StoreEntry(Header, G_CACHE_SIZES, exec[e].cache_info[exec[e].k])
    /\ exec' = [exec EXCEPT ![e].k = @ + 1]
    /\ UNCHANGED <<cfgVars, cout, diagVars, call, mem, nt, crashed, firstAuto, best_memcpy_impl,
                   initializer, g_cache_size_initializer, initRuns, initDone, info>>

\* the four closing assignments, and the return
InitializeEnsure(e) ==
    /\ exec[e].pc = "store"
    /\ exec[e].k > Len(exec[e].cache_info)
    /\ ~crashed
    /\ G_CACHE_SIZES' = EnsureValues(G_CACHE_SIZES)
    /\ exec' = [exec EXCEPT ![e] = Outside]
    /\ initDone' = IF initDone < MaxInitRuns THEN initDone + 1 ELSE initDone
    /\ g_cache_size_initializer' =
           IF e = "static" THEN "constructed" ELSE g_cache_size_initializer
    /\ cout' = IF Header = "cpu_features.hpp"
               THEN Append(cout, "Initialized cache sizes") ELSE cout
    /\ UNCHANGED <<cfgVars, diagVars, call, mem, nt, crashed, firstAuto, best_memcpy_impl,
                   initializer, initRuns, info>>

Threads == {"t1", "t2"}

\* a get_cpu_info that initializes on first use: it enters
\* initialize_cache_sizes itself when it finds the sizes still zero
GetCpuInfo_lazy(t) ==
    /\ build.variant = "memcpy.h"
    /\ ~crashed
    /\ IF G_CACHE_SIZES = ZeroSizes /\ exec["user"].pc = "out"
       THEN /\ InitializeEnter("user")
            /\ UNCHANGED <<info, G_CACHE_SIZES, g_cache_size_initializer, initDone>>
       ELSE /\ info' = [info EXCEPT ![t] = G_CACHE_SIZES]
            /\ UNCHANGED cacheVars
    /\ UNCHANGED <<cfgVars, cout, diagVars, call, mem, nt, crashed, firstAuto, best_memcpy_impl,
                   initializer>>

\* cpu_features.h, get_cpu_info: the four sizes a thread reads
GetCpuInfo(t) ==
    /\ build.variant = "memcpy.h"
    /\ ~crashed
    /\ info' = [info EXCEPT ![t] = G_CACHE_SIZES]
    /\ UNCHANGED <<cfgVars, cout, diagVars, call, mem, nt, crashed, firstAuto, best_memcpy_impl,
                   initializer, cacheVars>>

\* get_cpu_info step by step. Its braced initializer list is evaluated in
\* order: get_cpu_vendor_id(), get_cpu_brand_string(), get_cpu_features()
\* (which keeps to locals), then the four G_*_SIZE reads.
\* A thread calls get_cpu_info at most MaxGetterCalls times.
MaxGetterCalls == 2

GetCpuInfoEnter(t) ==
    /\ build.variant = "memcpy.h"
    /\ ~crashed
    /\ getter[t].pc = "out"
    /\ getter[t].calls < MaxGetterCalls
    /\ getter' = [getter EXCEPT ![t] = [pc |-> "vendor", calls |-> @.calls + 1]]
    /\ UNCHANGED <<cfgVars, cout, statics, call, mem, nt, crashed, firstAuto,
                   best_memcpy_impl, initializer, cacheVars, info>>

\* get_cpu_vendor_id: `static char vendor[13]`, then the three stores
\* *(int*)vendor = ebx, *(int*)(vendor + 4) = edx, *(int*)(vendor + 8) = ecx,
\* made on every call; the thread is at "vendor" while it makes them
get_cpu_vendor_id(t) ==
    /\ getter[t].pc = "vendor"
    /\ statics' = [statics EXCEPT !.vendor = @ + 1]
    /\ getter' = [getter EXCEPT ![t].pc = "brand"]
    /\ UNCHANGED <<cfgVars, cout, call, mem, nt, crashed, firstAuto,
                   best_memcpy_impl, initializer, cacheVars, info>>

\* get_cpu_brand_string: `static char brand[49]`, then three memcpy of 16
\* bytes into it, made on every call
get_cpu_brand_string(t) ==
    /\ getter[t].pc = "brand"
    /\ statics' = [statics EXCEPT !.brand = @ + 1]
    /\ getter' = [getter EXCEPT ![t].pc = "sizes"]
    /\ UNCHANGED <<cfgVars, cout, call, mem, nt, crashed, firstAuto,
                   best_memcpy_impl, initializer, cacheVars, info>>

\* the reads of G_L1_CACHE_SIZE .. G_CACHE_LINE_SIZE, and the return
GetCpuInfoReturn(t) ==
    /\ getter[t].pc = "sizes"
    /\ info' = [info EXCEPT ![t] = G_CACHE_SIZES]
    /\ getter' = [getter EXCEPT ![t].pc = "out"]
    /\ UNCHANGED <<cfgVars, cout, statics, call, mem, nt, crashed, firstAuto,
                   best_memcpy_impl, initializer, cacheVars>>

----------------------------------------------------------------------------
(* Inputs *)

\* the offsets of tests/memcpy_tests.cpp, and the odd ones of the spec's scenario
Offsets == {8 * k : k \in 0..7}

PrefixSizes == {0, 1, L3_STANDALONE - 1, L3_STANDALONE, L3_STANDALONE + 1}

KernelInputs ==
    (MemcpyImpl \X Offsets \X Offsets \X (PrefixSizes \cup {BigSize}))
    \cup (MemcpyImpl \X {3} \X {5} \X {L3_STANDALONE + 1, BigSize + 7})

DispatchInputs ==
    MemcpyImpl \X {8} \X {16} \X {0, L3_STANDALONE, BigSize}

NamedFunctions ==
    {"memcpy_auto", "memcpy_avx512", "memcpy_avx2", "memcpy_standard",
     "memcpy_wrapper"}

NamedInputs ==
    NamedFunctions \X {8} \X {16} \X {0, L3_STANDALONE, BigSize}

Call(inputs) ==
    \E in \in inputs :
        Memcpy(in[1], DestBase + in[2], SrcBase + in[3], in[4])

CallFunction(inputs) ==
    \E in \in inputs :
        FunctionCall(in[1], DestBase + in[2], SrcBase + in[3], in[4])

CallNamed(inputs) ==
    \E in \in inputs :
        NamedCall(in[1], DestBase + in[2], SrcBase + in[3], in[4])

KernelStep ==
    \/ StandardCopy
    \/ FastPath
    \/ Prologue
    \/ Block
    \/ TailCopy
    \/ Fence
    \/ Return

----------------------------------------------------------------------------
(* Specifications *)

InitCalls ==
    /\ call = Idle
    /\ mem = NoWrites
    /\ nt = NoStores
    /\ crashed = FALSE
    /\ firstAuto = "none"
    /\ best_memcpy_impl = "standard"
    /\ initializer = IF build.variant = "memcpy_impl.hpp" THEN "pending" ELSE "none"
    /\ getter = [t \in Threads |-> [pc |-> "out", calls |-> 0]]
    /\ statics = [vendor |-> 0, brand |-> 0]

\* before the dynamic initialization of g_cache_size_initializer
InitCacheZero ==
    /\ G_CACHE_SIZES = ZeroSizes
    /\ g_cache_size_initializer = "pending"
    /\ exec = [e \in Executors |-> Outside]
    /\ initRuns = 0
    /\ initDone = 0
    /\ info = [t \in Threads |-> ZeroSizes]
    /\ cout = <<>>

\* after it: the sizes are what one run of initialize_cache_sizes stores
InitCacheDone ==
    /\ G_CACHE_SIZES \in {Initialized(Header, os, p) : p \in ProbeOutcomes}
    /\ g_cache_size_initializer = "constructed"
    /\ exec = [e \in Executors |-> Outside]
    /\ initRuns = 1
    /\ initDone = 1
    /\ info = [t \in Threads |-> ZeroSizes]
    /\ cout = IF Header = "cpu_features.hpp"
              THEN <<"Detected cache sizes", "Initialized cache sizes">>
              ELSE <<>>

InitProcess == InitCalls /\ InitCacheZero

\* every build on every CPU, with the inputs that decide the routing
Init ==
    /\ build \in Builds \cup BuildsHpp
    /\ cpu \in CPUs
    /\ os = "linux"
    /\ InitCalls
    /\ IF build.variant = "memcpy.hpp" THEN InitCacheDone ELSE InitCacheZero

Next ==
    \/ Call(DispatchInputs)
    \/ CallFunction(DispatchInputs)
    \/ CallNamed(NamedInputs)
    \/ KernelStep
    \/ EmptyKernel
    \/ RunInitializer

Spec == Init /\ [][Next]_vars

\* the build of memcpy.h that has every kernel, with the inputs that decide
\* what a kernel does
InitKernel ==
    /\ build = [variant |-> "memcpy.h", compiler |-> "gcc",
                AVX2 |-> TRUE, AVX512F |-> TRUE]
    /\ cpu \in CPUs
    /\ os = "linux"
    /\ InitProcess

NextKernel ==
    \/ Call(KernelInputs)
    \/ KernelStep

SpecKernel == InitKernel /\ [][NextKernel]_vars

\* memcpy.hpp and memcpy_impl.hpp, whose kernels are called while the
\* cache sizes of cpu_features.hpp are still zero, while they are being
\* stored, and afterwards; a call that has started is carried on
HppInputs ==
    MemcpyImpl \X {8} \X {16}
        \X {0, 1, ALIGNMENT_AVX2 - 1, IMPL_HPP_SMALL + 1, BigSize}

InitHpp ==
    /\ build \in {b \in BuildsHpp : b.AVX2}
                \cup {b \in Builds : b.variant = "memcpy_impl.hpp"}
    /\ cpu \in {c \in CPUs : c.avx2}
    /\ os = "linux"
    /\ InitProcess

NextHpp ==
    \/ StaticInitBegin
    \/ InitializeStore("static")
    \/ InitializeEnsure("static")
    \/ RunInitializer
    \/ Call(HppInputs)
    \/ KernelStep
    \/ EmptyKernel

SpecHpp == InitHpp /\ [][NextHpp]_vars

\* tests/memcpy_tests.cpp, test_overlapping_copy: one buffer, the destination
\* OverlapShift above the source, then OverlapShift below it
OverlapInputs ==
    MemcpyImpl \X
        {<<OverlapShift, DestBase - SrcBase>>,
         <<0, DestBase - SrcBase + OverlapShift>>}

OverlapCall ==
    \E in \in OverlapInputs :
        \/ Memcpy(in[1], DestBase + in[2][1], SrcBase + in[2][2], OverlapSize)
        \/ \E f \in NamedFunctions :
               /\ ChoiceOf(f) = in[1]
               /\ NamedCall(f, DestBase + in[2][1], SrcBase + in[2][2], OverlapSize)

InitOverlap ==
    /\ build \in {b \in Builds : b.variant = "memcpy.h" /\ b.compiler = "gcc"
                                 /\ b.AVX2}
    /\ cpu \in {c \in CPUs : c.avx2}
    /\ os = "linux"
    /\ InitProcess

NextOverlap ==
    \/ OverlapCall
    \/ StandardCopy
    \/ FastPath
    \/ Return

SpecOverlap == InitOverlap /\ [][NextOverlap]_vars

\* the process from its static initialization on: the cache-size globals are
\* initialized while threads already read them and copy
InputsInit == {<<"Auto", 8, 16, IMPL_HPP_SMALL>>}

InitCache ==
    /\ build \in {b \in Builds : b.compiler = "gcc" /\ b.AVX2 /\ ~b.AVX512F}
    /\ cpu = [avx2 |-> TRUE, avx512f |-> FALSE]
    /\ os \in IF build.variant = "memcpy.h" THEN {"linux", "macos", "windows"}
               ELSE {"linux"}
    /\ InitProcess

NextInit ==
    \/ StaticInitBegin
    \/ InitializeStore("static")
    \/ InitializeEnsure("static")
    \/ \E t \in Threads : GetCpuInfo(t)
    \/ Call(InputsInit)
    \/ StandardCopy
    \/ FastPath
    \/ Return
    \/ RunInitializer

SpecInit == InitCache /\ [][NextInit]_vars

\* two threads in get_cpu_info while the cache sizes are initialized
InitDiag ==
    /\ build = [variant |-> "memcpy.h", compiler |-> "gcc",
                AVX2 |-> TRUE, AVX512F |-> FALSE]
    /\ cpu = [avx2 |-> TRUE, avx512f |-> FALSE]
    /\ os = "linux"
    /\ InitProcess

NextDiag ==
    \/ StaticInitBegin
    \/ InitializeStore("static")
    \/ InitializeEnsure("static")
    \/ \E t \in Threads :
           \/ GetCpuInfoEnter(t)
           \/ get_cpu_vendor_id(t)
           \/ get_cpu_brand_string(t)
           \/ GetCpuInfoReturn(t)

SpecDiag == InitDiag /\ [][NextDiag]_vars

\* the same process when its code also calls initialize_cache_sizes() itself
NextReinit ==
    \/ StaticInitBegin
    \/ InitializeStore("static")
    \/ InitializeEnsure("static")
    \/ UserInitialize
    \/ InitializeStore("user")
    \/ InitializeEnsure("user")

SpecReinit == InitCache /\ [][NextReinit]_vars

----------------------------------------------------------------------------
(* Claims about the kernels of omm/memcpy.h (SpecKernel) *)

Returned == call.pc = "ret"
InCall == call.pc # "idle"
DestRange == {WAdd(call.dest, k) : k \in 0..(call.n - 1)}

\* C1: round-trip correctness. When a call of any implementation of
\* omm/memcpy.h (Standard, AVX2, AVX512, Auto) returns, for every size,
\* dest[i] = src[i] for all i in [0, size): each destination byte holds the
\* byte the source held before the call, which is what a byte-by-byte
\* reference copy leaves there.
C1_RoundTrip ==
    (Returned /\ build.variant = "memcpy.h") =>
        \A k \in 0..(call.n - 1) :
            /\ ReadByte(mem, WAdd(call.dest, k)) = InitByte(WAdd(call.src, k))
            /\ ReadByte(mem, WAdd(call.src, k)) = InitByte(WAdd(call.src, k))

\* an Auto call above the threshold ran the 512-bit block loop and returned
C1_Witness ==
    /\ Returned /\ call.impl = "Auto" /\ call.kernel = "avx512"
    /\ call.n > L3_STANDALONE /\ nt.addrs # {}
    /\ \E k \in 0..(call.n - 1) :
           InitByte(WAdd(call.dest, k)) # InitByte(WAdd(call.src, k))

\* C2: alignment independence without out-of-bounds writes. For every
\* implementation, size and pair of source and destination offsets, at every
\* point of a call only addresses in [dest, dest+size) have been written (so
\* dest[size], every other byte outside the range and the source keep their
\* pre-call values), and at return the bytes inside the range equal the source.
C2_NoOutOfBoundsWrite ==
    InCall =>
        /\ (DOMAIN mem) \subseteq DestRange
        /\ WAdd(call.dest, call.n) \notin DOMAIN mem
        /\ Returned =>
              \A a \in DestRange :
                  a \in DOMAIN mem
                  /\ mem[a] = InitByte(WAdd(call.src, WSub(a, call.dest)))

\* the 256-bit kernel returned from a misaligned copy with prologue, blocks and tail
C2_Witness ==
    /\ Returned /\ call.kernel = "avx2"
    /\ call.dest = DestBase + 56 /\ call.src = SrcBase + 8
    /\ nt.addrs # {}
    /\ call.size > call.vector_size
    /\ call.n = BigSize

\* C3: store-fence ordering. Whenever a vector kernel returns, no
\* non-temporal store is left without a later store fence: every return path
\* that issued a non-temporal store passed the fence after its last store.
C3_FenceBeforeReturn ==
    (call.pc \in {"ret", "idle"}) => ~nt.pending

\* a kernel that issued non-temporal stores has returned
C3_Witness ==
    /\ Returned /\ call.kernel \in {"avx2", "avx512"}
    /\ nt.addrs # {} /\ ~nt.pending

----------------------------------------------------------------------------
(* Claims about the dispatchers (Spec) *)

\* the width an explicit choice asks for is compiled in and supported
Available(impl) ==
    CASE impl = "AVX512" ->
             (build.variant = "memcpy_impl.hpp" \/ build.AVX512F) /\ cpu.avx512f
      [] impl = "AVX2" ->
             (build.variant = "memcpy_impl.hpp" \/ build.AVX2) /\ cpu.avx2
      [] OTHER -> TRUE

\* C4: downgrade safety. A call that explicitly asks for AVX512 or AVX2 when
\* that width is not compiled in or not supported by the running CPU is
\* routed to the scalar kernel, and never executes a vector instruction of
\* the unsupported width.
C4_DowngradeSafety ==
    (InCall /\ call.impl \in {"AVX512", "AVX2"} /\ ~Available(call.impl)) =>
        /\ call.kernel = "standard"
        /\ call.pc # "sigill"

\* what the feature flags report
Flag512 == cpu_supports_avx512f(build, cpu)
Flag256 == cpu_supports_avx2(build, cpu)
FirstSupported ==
    IF Flag512 THEN "avx512" ELSE IF Flag256 THEN "avx2" ELSE "standard"

\* C5: Auto selection order. The kernel selected for Auto (by
\* get_best_memcpy_impl in memcpy.h on every Auto call, by
\* initialize_best_memcpy_impl in memcpy_impl.hpp) is the 512-bit kernel if
\* the flags report 512-bit support, else the 256-bit kernel if they report
\* 256-bit support, else the scalar kernel.
C5_AutoSelectionOrder ==
    /\ (build.variant = "memcpy.h" /\ InCall /\ call.impl = "Auto") =>
           call.kernel = FirstSupported
    /\ (initializer = "done") => best_memcpy_impl = FirstSupported

\* an Auto call was routed to the 256-bit kernel although 512-bit code is compiled in
C5_Witness ==
    /\ build.variant = "memcpy.h" /\ build.AVX512F
    /\ InCall /\ call.impl = "Auto" /\ call.kernel = "avx2"
    /\ ~Flag512 /\ Flag256

\* C6: memoization of Auto. Every Auto call after the first reuses the
\* stored kernel reference and makes no call of cpu_supports_avx512f or
\* cpu_supports_avx2.
C6_AutoMemoized ==
    (InCall /\ call.impl = "Auto" /\ ~call.first) => call.queries = 0

\* C7: idempotence of selection. Every Auto call of a process, at any point
\* of its lifetime, is routed to the kernel the first Auto call was routed to.
C7_AutoSameKernel ==
    (InCall /\ call.impl = "Auto") => call.kernel = firstAuto

InBody == {e \in Executors : exec[e].pc # "out"}

\* C8: whatever the threads do at first use (copy calls, get_cpu_info), the
\* body of initialize_cache_sizes is executed exactly once per process, and
\* two executions of it never overlap.
C8_InitializedExactlyOnce ==
    /\ initRuns <= 1
    /\ Cardinality(InBody) <= 1
    /\ g_cache_size_initializer = "constructed" => (initRuns = 1 /\ initDone = 1)
    /\ g_cache_size_initializer = "pending" => (initRuns = 0 /\ InBody = {})

C8_Witness ==
    /\ g_cache_size_initializer = "constructed"
    /\ initRuns = 1
    /\ \A t \in Threads : info[t] = G_CACHE_SIZES
    /\ G_CACHE_SIZES # ZeroSizes
    /\ Returned

\* C9: once the first initialization has completed, no operation of the
\* library, a further call of initialize_cache_sizes included, changes any of
\* the four values of G_CACHE_SIZES.
C9_ImmutableAfterInit ==
    [][initDone >= 1 => G_CACHE_SIZES' = G_CACHE_SIZES]_vars

AllPositive(G) == \A c \in CACHE_SIZES : G[c] > 0

\* C10: after initialize_cache_sizes has completed, whatever the probe
\* reported (detected, zero or failed, per level), L1, L2, L3 and the cache
\* line size stored in G_CACHE_SIZES are all strictly greater than zero.
C10_PositiveAfterInit ==
    (initDone >= 1 /\ InBody = {}) => AllPositive(G_CACHE_SIZES)

\* the probe reported nothing for L1 and L3, and gave no line size
C10_Witness ==
    /\ initDone >= 1
    /\ InBody = {}
    /\ build.variant = "memcpy.h"
    /\ G_CACHE_SIZES["L1_CACHE"] = DEFAULT_L1_CACHE_SIZE
    /\ G_CACHE_SIZES["L3_CACHE"] = DEFAULT_L1_CACHE_SIZE
    /\ G_CACHE_SIZES["CACHE_LINE"] = DEFAULT_CACHE_LINE_SIZE

\* C11: for each of the four values on its own, when the probe fails or
\* reports zero for that level, the value stored when initialize_cache_sizes
\* returns is that level's default (32 KiB, 256 KiB, 8 MiB, 64 B).
C11_PerLevelDefaults ==
    [][\A e \in Executors :
          (exec[e].pc = "store" /\ exec'[e].pc = "out") =>
              LET p == exec[e].probe
              IN  /\ p.l1d = 0 => G_CACHE_SIZES'["L1_CACHE"] = DEFAULT_L1_CACHE_SIZE
                  /\ p.l2 = 0 => G_CACHE_SIZES'["L2_CACHE"] = DEFAULT_L2_CACHE_SIZE
                  /\ p.l3 = 0 => G_CACHE_SIZES'["L3_CACHE"] = DEFAULT_L3_CACHE_SIZE
                  /\ p.line = 0 => G_CACHE_SIZES'["CACHE_LINE"] = DEFAULT_CACHE_LINE_SIZE]_vars

\* the threshold of the small-size test of a kernel: the standalone constant
\* (memcpy.h kernels), the L3 size read at the test (memcpy.hpp), 32
\* (memcpy_impl.hpp)
Threshold ==
    IF build.variant = "memcpy.h" THEN L3_STANDALONE
    ELSE IF build.variant = "memcpy.hpp" THEN
        IF call.path = "none" THEN G_CACHE_SIZES["L3_CACHE"] ELSE call.l3
    ELSE IMPL_HPP_SMALL

\* C12: in every vector kernel a call with size <= threshold is copied whole
\* by the bulk-copy primitive, with no prologue, no non-temporal store and no
\* fence; only sizes > threshold enter the vectorized path.
C12_SmallSizeFastPath ==
    (call.path # "none" /\ call.kernel \in {"avx2", "avx512"}) =>
        /\ call.n <= Threshold =>
               (call.path = "fast" /\ nt.addrs = {} /\ call.initial_bytes = 0)
        /\ call.n > Threshold => call.path = "vector"

\* C13: on the vectorized path the prologue, block-loop and tail byte counts
\* sum to the requested size, the block-loop count is a multiple of the block
\* size, the tail is smaller than one block, and the three destination
\* sub-ranges follow one another without gap or overlap; with the fast path
\* for threshold - 1 and threshold, every destination byte of [0, size) is
\* written, and written once.
C13_ThresholdBoundary ==
    /\ (call.pc \in {"fence", "ret"} /\ call.path = "vector") =>
           LET A == ALIGNMENT(call.kernel)
               B == BLOCK_SIZE(build, call.kernel)
               first == WAdd(call.dest, call.initial_bytes)
           IN  /\ call.initial_bytes + call.vector_size + call.remaining = call.n
               /\ call.vector_size % B = 0
               /\ call.remaining < B
               /\ nt.addrs = {WAdd(first, A * j) : j \in 0..((call.vector_size \div A) - 1)}
               /\ call.tail_at = WAdd(first, call.vector_size)
               /\ DOMAIN mem = DestRange
    /\ (call.pc = "ret" /\ call.path = "fast") => DOMAIN mem = DestRange

C13_Witness ==
    /\ Returned
    /\ call.path = "vector"
    /\ call.kernel = "avx512"
    /\ call.initial_bytes > 0
    /\ call.vector_size > 0
    /\ call.remaining > 0

\* C14: on every call omm::memcpy compares size with the fast-path threshold
\* before it consults the dispatcher; a call at or below the threshold is
\* copied without selecting a kernel and without going through the kernel
\* reference.
C14_EntryPointPreCheck ==
    (InCall /\ call.via = "memcpy" /\ call.n <= Threshold) =>
        (~call.dispatched /\ call.queries = 0)

\* C15: cpu_supports_avx2() and cpu_supports_avx512f() return true only if
\* the running CPU supports the extension, in every build configuration
\* (GCC, Clang, MSVC; the extension enabled at compile time or not).
C15_RuntimeFeatureCheck ==
    (InCall /\ call.queries > 0) =>
        /\ cpu_supports_avx512f(build, cpu) => cpu.avx512f
        /\ cpu_supports_avx2(build, cpu) => cpu.avx2

\* C16: copying between overlapping ranges of one buffer, the destination
\* above the source and the destination below it, leaves the buffer as
\* memmove leaves it: the destination range holds the bytes the source range
\* held before the call, and no other byte has changed.
C16_OverlappingCopy ==
    (Returned /\ Overlap(call.dest, call.src, call.n)) =>
        /\ \A k \in 0..(call.n - 1) :
               ReadByte(mem, WAdd(call.dest, k)) = InitByte(WAdd(call.src, k))
        /\ DOMAIN mem \subseteq DestRange

\* C17: every call returns after finitely many steps, whatever the cache
\* sizes are at that moment (before, during or after their initialization):
\* the block loop advances by a whole block, and whenever a block is about
\* to run, the prefetch loop inside it advances by a positive step, so that
\* it is left after finitely many iterations.
C17_Termination ==
    (call.pc = "loop" /\ call.i < call.vector_size /\ Supported(cpu, call.kernel)) =>
        /\ BLOCK_SIZE(build, call.kernel) > 0
        /\ PrefetchStep(build, G_CACHE_SIZES["CACHE_LINE"]) > 0

\* C18: with a positive L3 threshold (detected or default) a call smaller
\* than one vector width is handled whole by the fast path, and a call that
\* passes the small-size test has at least as many bytes as the alignment
\* prologue takes: size -= initial_bytes does not wrap around.
C18_NoSizeUnderflow ==
    (call.path # "none" /\ call.kernel \in {"avx2", "avx512"} /\ Threshold > 0) =>
        /\ call.n < ALIGNMENT(call.kernel) => call.path = "fast"
        /\ call.path = "vector" =>
               /\ call.initial_bytes <= call.n
               /\ call.size <= call.n
               /\ WAdd(call.size, call.initial_bytes) = call.n

\* a copy of fewer bytes than its destination is away from the next
\* 32-byte boundary, made when the L3 size is in place
C18_Witness ==
    /\ build.variant = "memcpy.hpp"
    /\ Returned
    /\ call.path = "fast"
    /\ call.kernel = "avx2"
    /\ call.l3 > 0
    /\ call.n > 0
    /\ call.n < InitialBytes(ALIGNMENT_AVX2, call.dest)

\* C19: a call with size = 0, of any entry point and with any choice, writes
\* no byte, issues no non-temporal store, does not fault, and goes from the
\* kernel's entry straight to its return.
C19_ZeroSizeNoOp ==
    (InCall /\ call.n = 0) =>
        /\ mem = NoWrites
        /\ nt = NoStores
        /\ ~crashed
        /\ call.pc \in {"kernel", "ret"}

\* an empty copy that a vector kernel has returned from
C19_Witness ==
    /\ Returned
    /\ call.n = 0
    /\ call.kernel \in {"avx2", "avx512"}
    /\ call.path = "fast"
    /\ call.dest % ALIGNMENT(call.kernel) # 0

\* C20: for every choice c, the callable that get_memcpy_function(c) returns
\* and the named function for c enter, with the same (dest, src, size), the
\* kernel that omm::memcpy(dest, src, size, c) enters at that moment; the
\* kernel's steps read nothing else of the call, so memory ends up the same.
C20_FactoryAgreesWithDispatcher ==
    [][(call.pc = "idle" /\ call'.pc = "kernel" /\ call'.via # "memcpy") =>
          /\ call'.kernel = Route(build, cpu, best_memcpy_impl, call'.impl)
          /\ call'.dest_ptr = call'.dest
          /\ call'.src_ptr = call'.src
          /\ call'.size = call'.n]_vars

\* a copy through get_memcpy_function(AVX2) that ran the AVX2 kernel's
\* vector path and returned
C20_Witness ==
    /\ Returned
    /\ call.via = "function"
    /\ call.impl = "AVX2"
    /\ call.callee = "memcpy_avx2"
    /\ call.kernel = "avx2"
    /\ call.path = "vector"

----------------------------------------------------------------------------
(* memcpy_impl.hpp's 512-bit kernel, the cache probe's levels, reads of the *)
(* cache sizes, the cursors of the memcpy.h kernels                        *)

\* C21: in memcpy_impl.hpp, when a copy of non-overlapping buffers that ran
\* detail::memcpy_avx512 (choice AVX512, or Auto on a CPU that reports
\* AVX-512F) returns, dest[i] = src[i] for all i in [0, size).
C21_Wide512RoundTrip ==
    (/\ build.variant = "memcpy_impl.hpp"
     /\ Returned
     /\ call.kernel = "avx512"
     /\ ~Overlap(call.dest, call.src, call.n)) =>
        \A k \in 0..(call.n - 1) :
            ReadByte(mem, WAdd(call.dest, k)) = InitByte(WAdd(call.src, k))

\* C22: a get_cpu_info that runs before or while the constructor of
\* g_cache_size_initializer runs never returns a set of cache sizes of which
\* some are written and others are still the zero of the array's initializer.
C22_SafeEarlyReads ==
    \A t \in Threads : info[t] # ZeroSizes => AllPositive(info[t])

\* C23: on the vector path of a kernel of width W the prologue copies
\* n = (W - dest mod W) mod W bytes: 0 <= n <= W - 1, n = 0 exactly when
\* dest is W-aligned, dest + n is W-aligned and no smaller count aligns it;
\* the prologue writes exactly dest[0..n), and after it both cursors are n
\* further and the remaining size is n less.
C23_PrologueMinimalExact ==
    (build.variant = "memcpy.h" /\ call.path = "vector") =>
        LET W == ALIGNMENT(call.kernel)
            n == call.initial_bytes
        IN  /\ n = (W - (call.dest % W)) % W
            /\ n >= 0 /\ n <= W - 1
            /\ (n = 0) <=> (call.dest % W = 0)
            /\ (call.dest + n) % W = 0
            /\ \A m \in 0..(n - 1) : (call.dest + m) % W # 0
            /\ call.size = call.n - n
            /\ (call.pc = "loop" /\ call.i = 0) =>
                   /\ call.dest_ptr = call.dest + n
                   /\ call.src_ptr = call.src + n
                   /\ call.dest_vec = call.dest + n
                   /\ call.src_vec = call.src + n
                   /\ DOMAIN mem = {call.dest + m : m \in 0..(n - 1)}
                   /\ \A m \in 0..(n - 1) :
                          mem[call.dest + m] = InitByte(call.src + m)

\* the 512-bit kernel after a prologue of 56 bytes
C23_Witness ==
    /\ build.variant = "memcpy.h"
    /\ call.pc = "loop" /\ call.i = 0
    /\ call.kernel = "avx512"
    /\ call.dest % ALIGNMENT_AVX512 = 8
    /\ call.initial_bytes = ALIGNMENT_AVX512 - 8
    /\ call.size = BigSize - call.initial_bytes

\* C24: in every state of the block loop of a memcpy.h kernel, whatever the
\* alignment of dest and src at entry, every non-temporal store issued so
\* far and the next one go to a multiple of the vector width W; the load
\* address is not constrained, and no store faults for its alignment.
C24_AlignedStreamingStores ==
    (build.variant = "memcpy.h" /\ call.path = "vector") =>
        LET W == ALIGNMENT(call.kernel)
        IN  /\ \A a \in nt.addrs : a % W = 0
            /\ call.dest_vec % W = 0
            /\ call.pc # "sigsegv"

\* blocks streamed to aligned addresses from a source that is not aligned
C24_Witness ==
    /\ build.variant = "memcpy.h"
    /\ call.pc = "loop"
    /\ call.kernel = "avx2"
    /\ call.dest % ALIGNMENT_AVX2 # 0
    /\ call.src_vec % ALIGNMENT_AVX2 # 0
    /\ Cardinality(nt.addrs) = 2 * UNROLL_FACTOR

\* C25: when the probe reports an L3 size, the L3 value that
\* initialize_cache_sizes leaves in G_CACHE_SIZES is that size halved
\* (rounded down), not the size itself.
C25_L3Normalization ==
    [][\A e \in Executors :
          (exec[e].pc = "store" /\ exec'[e].pc = "out" /\ exec[e].probe.l3 > 0) =>
              G_CACHE_SIZES'["L3_CACHE"] = exec[e].probe.l3 \div 2]_vars

\* C26: on every platform branch, when initialize_cache_sizes returns, the
\* stored L1 is the probed L1 data cache, the stored L2 the probed L2, the
\* stored L3 comes from the probed L3 (as it is or halved), and no stored
\* value is the size of the L1 instruction cache.
C26_LevelMapping ==
    [][\A e \in Executors :
          (exec[e].pc = "store" /\ exec'[e].pc = "out") =>
              LET p == exec[e].probe
                  G == G_CACHE_SIZES'
              IN  /\ p.l1d > 0 => G["L1_CACHE"] = p.l1d
                  /\ p.l2 > 0 => G["L2_CACHE"] = p.l2
                  /\ p.l3 > 0 => G["L3_CACHE"] \in {p.l3, p.l3 \div 2}
                  /\ p.l1i > 0 => \A c \in CACHE_SIZES : G[c] # p.l1i]_vars

\* C27: detecting and initializing the cache sizes changes nothing that the
\* program can observe but the four values: a step of
\* initialize_cache_sizes writes no line to standard output and touches
\* neither the copy in progress nor memory.
C27_ProbePurity ==
    [][(exec' # exec) =>
          /\ cout' = cout
          /\ call' = call
          /\ mem' = mem
          /\ nt' = nt
          /\ best_memcpy_impl' = best_memcpy_impl]_vars

\* C28: in a memcpy.h kernel, at the start of every iteration of the block
\* loop and at the tail copy, the source cursors and the destination cursor
\* are at the same offset from src and dest (src_ptr = src_vec, and
\* dest_vec - dest = src_ptr - src = initial_bytes + i), every destination
\* byte below that offset equals its source byte, and the tail is written at
\* that offset, so that it copies source offset k to destination offset k.
C28_CursorLockstep ==
    (build.variant = "memcpy.h" /\ call.path = "vector"
        /\ call.pc \in {"loop", "fence"}) =>
        LET off == WSub(call.dest_vec, call.dest)
        IN  /\ call.src_ptr = call.src_vec
            /\ off = WSub(call.src_ptr, call.src)
            /\ off = call.initial_bytes + call.i
            /\ call.pc = "loop" =>
                   \A k \in 0..(off - 1) :
                       ReadByte(mem, WAdd(call.dest, k)) = InitByte(WAdd(call.src, k))
            /\ call.pc = "fence" =>
                   /\ call.tail_at = WAdd(call.dest, off)
                   /\ off + call.remaining = call.n
                   /\ \A k \in 0..(call.n - 1) :
                          ReadByte(mem, WAdd(call.dest, k)) = InitByte(WAdd(call.src, k))

\* the 256-bit kernel at the start of its second block, after a prologue
C28_Witness ==
    /\ build.variant = "memcpy.h"
    /\ call.pc = "loop"
    /\ call.kernel = "avx2"
    /\ call.initial_bytes > 0
    /\ call.i = ALIGNMENT_AVX2 * UNROLL_FACTOR
    /\ call.i < call.vector_size
    /\ call.src % ALIGNMENT_AVX2 # call.dest % ALIGNMENT_AVX2

\* the source bytes a memcpy.h kernel has loaded so far, by the part of the
\* kernel that loaded them: the prologue from src, the vector loads of the
\* block loop from src_vec, the tail from src_ptr (256-bit kernel) or
\* src_vec (512-bit kernel), the fast path from src
PrologueLoads ==
    IF call.path = "vector"
    THEN {WAdd(call.src, k) : k \in 0..(call.initial_bytes - 1)} ELSE {}

BlockLoads ==
    IF call.path = "vector"
    THEN {WAdd(WSub(call.src_vec, call.i), k) : k \in 0..(call.i - 1)} ELSE {}

TailLoads ==
    IF call.path = "vector" /\ call.pc \in {"fence", "ret"}
    THEN LET s == IF call.kernel = "avx512" THEN call.src_vec ELSE call.src_ptr
         IN  {WAdd(s, k) : k \in 0..(call.remaining - 1)}
    ELSE {}

FastLoads ==
    IF call.path = "fast"
    THEN {WAdd(call.src_ptr, k) : k \in 0..(call.size - 1)} ELSE {}

SrcRange == {WAdd(call.src, k) : k \in 0..(call.n - 1)}

\* C29: every byte a kernel loads (prologue, vector loads, tail, or the fast
\* path; prefetches apart) lies in [src, src+size); no byte is loaded by two
\* parts of the kernel or twice by one, and when the kernel returns every
\* byte of the range has been loaded.
C29_LoadsInsideSource ==
    (build.variant = "memcpy.h" /\ call.kernel \in {"avx2", "avx512"}
        /\ call.pc \in {"loop", "fence", "ret"}) =>
        /\ PrologueLoads \cup BlockLoads \cup TailLoads \cup FastLoads \subseteq SrcRange
        /\ PrologueLoads \cap BlockLoads = {}
        /\ PrologueLoads \cap TailLoads = {}
        /\ BlockLoads \cap TailLoads = {}
        /\ Cardinality(PrologueLoads) = (IF call.path = "vector" THEN call.initial_bytes ELSE 0)
        /\ Cardinality(BlockLoads) = (IF call.path = "vector" THEN call.i ELSE 0)
        /\ call.pc \in {"fence", "ret"} =>
               /\ PrologueLoads \cup BlockLoads \cup TailLoads \cup FastLoads = SrcRange
               /\ Cardinality(TailLoads) = call.remaining

\* the 512-bit kernel returned from a copy that had a prologue, a block and
\* a tail, from a source that is not aligned
C29_Witness ==
    /\ build.variant = "memcpy.h"
    /\ Returned
    /\ call.kernel = "avx512"
    /\ PrologueLoads # {} /\ BlockLoads # {} /\ TailLoads # {}
    /\ call.src % ALIGNMENT_AVX512 # 0

\* C30: two threads in get_cpu_info never write the same static buffer at
\* the same time (the vendor string or the brand string), and each buffer
\* is written by the first call only, never again by a later one.
C30_AccessorsRaceFree ==
    /\ \A t, u \in Threads :
           (t # u /\ getter[t].pc \in {"vendor", "brand"}) =>
               getter[u].pc # getter[t].pc
    /\ statics.vendor <= 1
    /\ statics.brand <= 1
====
